---- MODULE Spec2Model ----
(***************************************************************************)
(* Leveraged Rotation Strategy backtest engine (src/Backtest).             *)
(*                                                                         *)
(* Part I models run_backtest / download_data as processes over the shared *)
(* file cache: the range validation, the cache validity test, the pickle  *)
(* load, the retry loop, the cache write and the error classification.     *)
(* Dates are day numbers counted from 1900-01-01, the clock counts hours.  *)
(***************************************************************************)
EXTENDS Integers, Sequences, FiniteSets, TLC

\* --------------------------------------------------------------- bounds
\* hours the clock may advance in one behaviour
MaxTime == 5
\* write() / read() calls one pickle.dump / pickle.load is split into
NChunks == 2
\* rows (trading days) of a price table
MaxRows == 3

\* ------------------------------------------------------ program constants
CACHE_TTL_HOURS == 4
max_retries == 3
\* pd.to_datetime("1927-01-01"), pd.to_datetime("1928-01-01") as day numbers
EARLIEST_DATA_DATE == 9861
EARLIEST_RECOMMENDED_START == 10226

\* ------------------------------------------------------------ input sets
\* the day on which the clock starts (2025-12-09), at 21:00
Today0 == 45998
Clock0 == 24 * Today0 + 21
\* (start, end) pairs a caller may pass: the scenarios of
\* test_date_handling.py and end dates around today
Ranges ==
  { [start |-> 45625, end |-> 43829],          \* 2024-12-01 .. 2020-01-01
    [start |-> 45290, end |-> 45290],          \* start = end
    [start |-> 0,     end |-> 25931],          \* 1900-01-01 .. 1970-12-31
    [start |-> 45290, end |-> Today0 + 1],     \* end tomorrow
    [start |-> 45290, end |-> Today0],         \* end today
    [start |-> 45290, end |-> Today0 - 1],     \* end yesterday
    [start |-> 45290, end |-> Today0 - 2] }    \* end two days ago
MaPeriods == {5, 200}
Leverages == {1, 2, 3}
Windows ==
  {[start |-> w.start, end |-> w.end, ma |-> m, lev |-> l] :
     w \in Ranges, m \in MaPeriods, l \in Leverages}
\* price tables the provider may return (identities of DataFrames)
Tables == {1, 2}
Procs == {1, 2}

VARIABLES
  now,        \* time.time(), in hours
  cache,      \* CACHE_DIR: cache key -> file
  run,        \* per process: the run_backtest call in progress
  window,     \* the (start, end, ma_period, leverage) the callers of this behaviour pass
  active,     \* the processes that issue calls
  persisted,  \* history: key -> [at, tbl] of the complete entry now in the cache
  warmOut,    \* history: key -> [at, req, out, n], the result of the first of
              \* the n (counted to 2) runs that ran while the entry persisted
              \* at time at was present and not expired
  pipe,       \* Part II: the stages of one run on a concrete price table
  fetch,      \* Part III: the fetch window of one run and the rows it holds
  calc        \* Part IV: one metric or HTTP-layer function and its argument

ctlVars == <<now, cache, run, window, active, persisted, warmOut>>
vars == <<now, cache, run, window, active, persisted, warmOut, pipe, fetch, calc>>

\* ------------------------------------------------------------ the cache
Hole == 0
NoFile == [exists |-> FALSE, mtime |-> 0, data |-> <<>>]
FileOf(c, k) == IF k \in DOMAIN c THEN c[k] ELSE NoFile
PutFile(c, k, f) == [x \in DOMAIN c \cup {k} |-> IF x = k THEN f ELSE c[x]]

\* _get_cache_path: the path is determined by (start, end)
get_cache_path(start, end) == <<start, end>>

\* _is_cache_valid: the file exists and its age is below the TTL
is_cache_valid_never(f, t) == FALSE
is_cache_valid_le(f, t) == f.exists /\ t - f.mtime <= CACHE_TTL_HOURS
is_cache_valid(f, t) == f.exists /\ t - f.mtime < CACHE_TTL_HOURS

\* pickle.dump(close, f): the table as the chunks written, in order
Pickle(T) == [i \in 1..NChunks |-> T]
\* a loaded table is the entry one writer wrote
IsWhole(t) == Len(t) = NChunks /\ \A i \in 1..NChunks : t[i] = t[1] /\ t[i] # Hole
\* f.write at offset i-1 of a file opened 'wb' (a gap reads as garbage)
WriteAt(data, i, c) ==
  [j \in 1..(IF Len(data) > i THEN Len(data) ELSE i) |->
     IF j = i THEN c ELSE IF j <= Len(data) THEN data[j] ELSE Hole]

\* ------------------------------------------------------- run_backtest
DayOf(t) == t \div 24
ExtDays_unscaled(ma) == ma + 30
\* int(ma_period * 1.5) + 30
ExtDays(ma) == (ma * 3) \div 2 + 30
\* lines 323-326: the start used for trimming
ResolvedStart(start) ==
  IF start < EARLIEST_RECOMMENDED_START THEN EARLIEST_RECOMMENDED_START ELSE start
\* lines 330-334: the start of the fetch window
ExtendedStart(start, ma) ==
  LET e == ResolvedStart(start) - ExtDays(ma)
  IN  IF e < EARLIEST_DATA_DATE THEN EARLIEST_DATA_DATE ELSE e
\* line 320
RangeInvalid_gt(start, end) == start > end
RangeInvalid(start, end) == start >= end

\* lines 350-430: the result is a function of the table and the parameters
Result(tbl, q) == [tbl |-> tbl, start |-> ResolvedStart(q.start), ma |-> q.ma, lev |-> q.lev]

NoReq == [start |-> 0, end |-> 0, ma |-> 0, lev |-> 0]
Idle ==
  [pc |-> "idle", req |-> NoReq, key |-> <<0, 0>>, dft |-> 0, att |-> 0,
   got |-> <<>>, tbl |-> <<>>, wpos |-> 0, err |-> "", out |-> <<>>,
   ops |-> {}, nonEmpty |-> FALSE, hit |-> FALSE, hitTbl |-> <<>>, warm |-> 0,
   stages |-> <<>>]

\* history: the entry of key k was completely written at persisted[k].at, no
\* write to it has begun since, and it is younger than the TTL
Warm(k, t) == k \in DOMAIN persisted /\ t < persisted[k].at + CACHE_TTL_HOURS
Drop(c, k) == [x \in DOMAIN c \ {k} |-> c[x]]

Set(p, r) == run' = [run EXCEPT ![p] = r]
\* history: the run r began while its cache entry, persisted at r.warm, was
\* present and not expired, and the entry has not expired by time t
StayedWarm(r, t) == r.warm # 0 /\ t < r.warm + CACHE_TTL_HOURS
\* history: an earlier run with r's parameters ran under the same entry
HasWarmOut(r) ==
  r.key \in DOMAIN warmOut /\ warmOut[r.key].at = r.warm /\ warmOut[r.key].req = r.req

\* a caller invokes run_backtest(start, end, ma_period, leverage)
Call(p) ==
  /\ p \in active
  /\ run[p].pc = "idle"
  /\ Set(p, [Idle EXCEPT !.pc = "resolve", !.req = window])
  /\ UNCHANGED <<now, cache, window, active, persisted, warmOut, pipe, fetch, calc>>

\* run_backtest lines 313-342 (Resolve Range): validate, clamp, extend
ResolveRange(p) ==
  LET r == run[p]
      q == r.req
      k == get_cache_path(ExtendedStart(q.start, q.ma), q.end)
  IN  /\ r.pc = "resolve"
      /\ IF RangeInvalid(q.start, q.end)
            THEN Set(p, [r EXCEPT !.pc = "failed", !.err = "ValueError",
                                  !.stages = Append(@, "Resolve Range")])
            ELSE Set(p, [r EXCEPT !.pc = "enter", !.key = k,
                                  !.warm = IF Warm(k, now) THEN persisted[k].at ELSE 0,
                                  !.stages = Append(@, "Resolve Range")])
      /\ UNCHANGED <<now, cache, window, active, persisted, warmOut, pipe, fetch, calc>>

\* download_data lines 60-70: today, days_from_today, the cache validity test
DownloadEnter(p) ==
  LET r == run[p]
      valid == is_cache_valid(FileOf(cache, r.key), now)
  IN  /\ r.pc = "enter"
      /\ Set(p, [r EXCEPT !.pc = IF valid THEN "load" ELSE "fetch",
                          !.dft = DayOf(now) - r.req.end,
                          !.att = 0,
                          !.ops = @ \cup {"check"},
                          !.stages = Append(@, "Fetch"),
                          !.hit = Warm(r.key, now),
                          !.hitTbl = IF Warm(r.key, now) THEN persisted[r.key].tbl ELSE <<>>])
      /\ UNCHANGED <<now, cache, window, active, persisted, warmOut, pipe, fetch, calc>>

\* download_data lines 71-76: open the file and pickle.load it, one read at a
\* time; any exception is caught and the call goes on to the fetch loop
CacheLoad(p) ==
  LET r == run[p]
      f == FileOf(cache, r.key)
      i == Len(r.got) + 1
      g == Append(r.got, f.data[i])
  IN  /\ r.pc = "load"
      /\ IF i > Len(f.data) \/ f.data[i] = Hole
            THEN \* EOFError / UnpicklingError
                 Set(p, [r EXCEPT !.pc = "fetch", !.att = 0, !.got = <<>>,
                                  !.ops = @ \cup {"load"}])
            ELSE IF Len(g) < NChunks
              THEN Set(p, [r EXCEPT !.got = g, !.ops = @ \cup {"load"}])
              ELSE \/ \* the bytes read form a pickle: it is returned
                      Set(p, [r EXCEPT !.pc = "build", !.got = <<>>, !.tbl = g,
                                       !.ops = @ \cup {"load"}])
                   \/ \* bytes of two different writes need not form a pickle
                      /\ ~IsWhole(g)
                      /\ Set(p, [r EXCEPT !.pc = "fetch", !.att = 0, !.got = <<>>,
                                          !.ops = @ \cup {"load"}])
      /\ UNCHANGED <<now, cache, window, active, persisted, warmOut, pipe, fetch, calc>>

\* download_data lines 79-93, 97-101: one iteration of the retry loop up to
\* the open(cache_path, 'wb'), which truncates the file
FetchAttempt(p) ==
  LET r == run[p]
      failed == [r EXCEPT !.att = @ + 1, !.ops = @ \cup {"fetch"}]
  IN  /\ r.pc = "fetch"
      /\ r.att < max_retries
      /\ \/ \* yf.download raises, or returns an empty frame
            /\ Set(p, failed)
            /\ UNCHANGED <<cache, persisted>>
         \/ \* a non-empty frame, but mkdir / open raises: caught at line 99
            /\ Set(p, [failed EXCEPT !.nonEmpty = TRUE])
            /\ UNCHANGED <<cache, persisted>>
         \/ \* a non-empty frame; the cache file is opened for writing
            \E T \in Tables :
              /\ Set(p, [r EXCEPT !.pc = "dump", !.tbl = Pickle(T), !.wpos = 0,
                                  !.nonEmpty = TRUE,
                                  !.ops = @ \cup {"fetch", "write"}])
              /\ cache' = PutFile(cache, r.key, [exists |-> TRUE, mtime |-> now, data |-> <<>>])
              /\ persisted' = Drop(persisted, r.key)
      /\ UNCHANGED <<now, window, active, warmOut, pipe, fetch, calc>>

\* download_data lines 94-96: pickle.dump writes the next chunk; after the last
\* one the file is closed and the table returned.  A write that raises is
\* caught at line 99 like a failed download
CacheDump(p) ==
  LET r == run[p]
      f == FileOf(cache, r.key)
      i == r.wpos + 1
      T == r.tbl[1]
  IN  /\ r.pc = "dump"
      /\ \/ /\ cache' = PutFile(cache, r.key,
                     [exists |-> TRUE, mtime |-> now, data |-> WriteAt(f.data, i, r.tbl[i])])
            /\ IF i < NChunks
                 THEN /\ Set(p, [r EXCEPT !.wpos = i])
                      /\ UNCHANGED persisted
                 ELSE /\ Set(p, [r EXCEPT !.pc = "build", !.wpos = 0])
                      /\ persisted' = PutFile(persisted, r.key,
                                              [at |-> now, tbl |-> r.tbl])
         \/ /\ Set(p, [r EXCEPT !.pc = "fetch", !.att = @ + 1, !.wpos = 0, !.tbl = <<>>])
            /\ UNCHANGED <<cache, persisted>>
      /\ UNCHANGED <<now, window, active, warmOut, pipe, fetch, calc>>

\* download_data lines 103-119: the retries are used up
ErrorKind_lt(dft) ==
  IF dft < 1 THEN "lag" ELSE IF dft < 0 THEN "future" ELSE "generic"
ErrorKind(dft) ==
  IF dft <= 1 THEN "lag" ELSE IF dft < 0 THEN "future" ELSE "generic"

RaiseExhausted(p) ==
  LET r == run[p]
  IN  /\ r.pc = "fetch"
      /\ r.att >= max_retries
      /\ Set(p, [r EXCEPT !.pc = "failed", !.err = ErrorKind(r.dft)])
      /\ UNCHANGED <<now, cache, window, active, persisted, warmOut, pipe, fetch, calc>>

\* history: the run that ends now is recorded under its cache entry
RecordWarm(r, o) ==
  warmOut' = IF ~StayedWarm(r, now) THEN warmOut
             ELSE IF HasWarmOut(r)
               THEN [warmOut EXCEPT ![r.key].n = 2]
               ELSE PutFile(warmOut, r.key,
                            [at |-> r.warm, req |-> r.req, out |-> o, n |-> 1])

\* run_backtest lines 350-430 on the table download_data returned, in one
\* step, for a table on which no stage raises
RunPipeline(p) ==
  LET r == run[p]
      o == Result(r.tbl, r.req)
  IN  /\ r.pc = "build"
      /\ Set(p, [r EXCEPT !.pc = "done", !.out = o,
                          !.stages = @ \o <<"Build Legs", "Signal", "Compose", "Trim",
                                            "Summarize">>,
                          !.warm = IF StayedWarm(r, now) THEN @ ELSE 0])
      /\ RecordWarm(r, o)
      /\ UNCHANGED <<now, cache, window, active, persisted, pipe, fetch, calc>>

\* the same lines stage by stage.  Lines 351-352 (Build Legs): the column
\* lookups of lines 130-134, 166-169 raise KeyError on a table without one
\* of the columns
StageBuildLegs(p) ==
  LET r == run[p]
  IN  /\ r.pc = "build"
      /\ \/ Set(p, [r EXCEPT !.pc = "signal", !.stages = Append(@, "Build Legs")])
         \/ Set(p, [r EXCEPT !.pc = "raised", !.err = "KeyError",
                             !.stages = Append(@, "Build Legs")])
      /\ UNCHANGED <<now, cache, window, active, persisted, warmOut, pipe, fetch, calc>>

\* line 355 (Signal)
StageSignal(p) ==
  LET r == run[p]
  IN  /\ r.pc = "signal"
      /\ Set(p, [r EXCEPT !.pc = "compose", !.stages = Append(@, "Signal")])
      /\ UNCHANGED <<now, cache, window, active, persisted, warmOut, pipe, fetch, calc>>

\* lines 358-365 (Compose)
StageCompose(p) ==
  LET r == run[p]
  IN  /\ r.pc = "compose"
      /\ Set(p, [r EXCEPT !.pc = "trim", !.stages = Append(@, "Compose")])
      /\ UNCHANGED <<now, cache, window, active, persisted, warmOut, pipe, fetch, calc>>

\* lines 369-392 (Trim and Renormalize): RuntimeError at line 371 when the
\* table has no row on or after the start
StageTrim_refetch(p) ==
  LET r == run[p]
  IN  /\ r.pc = "trim"
      /\ \/ Set(p, [r EXCEPT !.pc = "summarize", !.stages = Append(@, "Trim")])
         \/ Set(p, [r EXCEPT !.pc = "fetch", !.att = 0, !.stages = Append(@, "Trim")])
      /\ UNCHANGED <<now, cache, window, active, persisted, warmOut, pipe, fetch, calc>>
StageTrim(p) ==
  LET r == run[p]
  IN  /\ r.pc = "trim"
      /\ \/ Set(p, [r EXCEPT !.pc = "summarize", !.stages = Append(@, "Trim")])
         \/ Set(p, [r EXCEPT !.pc = "raised", !.err = "RuntimeError_no_data",
                             !.stages = Append(@, "Trim")])
      /\ UNCHANGED <<now, cache, window, active, persisted, warmOut, pipe, fetch, calc>>

\* lines 395-430 (Summarize): ZeroDivisionError at line 204 when the trimmed
\* series has one date; otherwise the BacktestResult is returned
StageSummarize(p) ==
  LET r == run[p]
      o == Result(r.tbl, r.req)
  IN  /\ r.pc = "summarize"
      /\ \/ /\ Set(p, [r EXCEPT !.pc = "done", !.out = o,
                                 !.stages = Append(@, "Summarize"),
                                 !.warm = IF StayedWarm(r, now) THEN @ ELSE 0])
            /\ RecordWarm(r, o)
         \/ /\ Set(p, [r EXCEPT !.pc = "raised", !.err = "ZeroDivisionError",
                                 !.stages = Append(@, "Summarize")])
            /\ UNCHANGED warmOut
      /\ UNCHANGED <<now, cache, window, active, persisted, pipe, fetch, calc>>

\* the call returns or raises to its caller
Return(p) ==
  /\ run[p].pc \in {"done", "failed", "raised"}
  /\ Set(p, Idle)
  /\ UNCHANGED <<now, cache, window, active, persisted, warmOut, pipe, fetch, calc>>

\* an hour passes
Tick ==
  /\ now < Clock0 + MaxTime
  /\ now' = now + 1
  /\ UNCHANGED <<cache, run, window, active, persisted, warmOut, pipe, fetch, calc>>

(***************************************************************************)
(* Part II: the numeric pipeline on a concrete price table.                *)
(*                                                                         *)
(* A float is a pair <<n, d>>: the fraction n/d in lowest terms when d > 0, *)
(* NaN = <<0, 0>>, +inf = <<1, 0>>, -inf = <<-1, 0>>.  Arithmetic is exact *)
(* on fractions and follows IEEE 754 on the non-finite values.             *)
(***************************************************************************)
NaN == <<0, 0>>
PInf == <<1, 0>>
NInf == <<-1, 0>>
IsNaN(x) == x[2] = 0 /\ x[1] = 0
IsInf(x) == x[2] = 0 /\ x[1] # 0
IsFin(x) == x[2] # 0
Abs(n) == IF n < 0 THEN -n ELSE n
Sgn(n) == IF n < 0 THEN -1 ELSE IF n > 0 THEN 1 ELSE 0
RECURSIVE Gcd(_, _)
Gcd(a, b) == IF b = 0 THEN a ELSE Gcd(b, a % b)
Rat(n, d) == LET g == Gcd(Abs(n), d) IN <<n \div g, d \div g>>
Num(k) == <<k, 1>>
Zero == Num(0)
One == Num(1)

FAdd(x, y) ==
  IF IsNaN(x) \/ IsNaN(y) THEN NaN
  ELSE IF IsInf(x) THEN (IF IsInf(y) /\ y # x THEN NaN ELSE x)
  ELSE IF IsInf(y) THEN y
  ELSE Rat(x[1] * y[2] + y[1] * x[2], x[2] * y[2])
FMul(x, y) ==
  IF IsNaN(x) \/ IsNaN(y) THEN NaN
  ELSE IF IsInf(x) \/ IsInf(y)
    THEN (IF x[1] = 0 \/ y[1] = 0 THEN NaN ELSE <<Sgn(x[1]) * Sgn(y[1]), 0>>)
  ELSE Rat(x[1] * y[1], x[2] * y[2])
FDiv(x, y) ==
  IF IsNaN(x) \/ IsNaN(y) THEN NaN
  ELSE IF IsInf(x)
    THEN (IF IsInf(y) THEN NaN ELSE <<IF y[1] < 0 THEN -x[1] ELSE x[1], 0>>)
  ELSE IF IsInf(y) THEN Zero
  ELSE IF y[1] = 0 THEN (IF x[1] = 0 THEN NaN ELSE <<Sgn(x[1]), 0>>)
  ELSE Rat(x[1] * y[2] * Sgn(y[1]), x[2] * Abs(y[1]))
FSub(x, y) == FAdd(x, <<-y[1], y[2]>>)
\* x > y on floats: false when either side is NaN
FGt(x, y) ==
  IF IsNaN(x) \/ IsNaN(y) THEN FALSE
  ELSE IF IsFin(x) /\ IsFin(y) THEN x[1] * y[2] > y[1] * x[2]
  ELSE IF IsFin(x) THEN y = NInf
  ELSE IF IsFin(y) THEN x = PInf
  ELSE x = PInf /\ y = NInf

\* ------------------------------------------------------ Series helpers
\* a series as a tuple of its values
Series(f) == f \o <<>>
\* Series.ffill(): a NaN takes the last valid value before it
RECURSIVE FfillTo(_, _)
FfillTo(s, i) ==
  IF i = 0 THEN NaN ELSE IF IsNaN(s[i]) THEN FfillTo(s, i - 1) ELSE s[i]
ffill(s) == Series([i \in 1..Len(s) |-> FfillTo(s, i)])
\* Series.bfill(): a NaN takes the next valid value after it
RECURSIVE BfillFrom(_, _)
BfillFrom(s, i) ==
  IF i > Len(s) THEN NaN ELSE IF IsNaN(s[i]) THEN BfillFrom(s, i + 1) ELSE s[i]
bfill(s) == Series([i \in 1..Len(s) |-> BfillFrom(s, i)])
\* Series.pct_change(fill_method=None)
pct_change(s) ==
  Series([i \in 1..Len(s) |-> IF i = 1 THEN NaN ELSE FSub(FDiv(s[i], s[i - 1]), One)])
\* .replace([np.inf, -np.inf], np.nan)
replace_inf(s) == Series([i \in 1..Len(s) |-> IF IsInf(s[i]) THEN NaN ELSE s[i]])
\* .fillna(0)
fillna0(s) == Series([i \in 1..Len(s) |-> IF IsNaN(s[i]) THEN Zero ELSE s[i]])
\* (1 + r).cumprod()
RECURSIVE CumprodTo(_, _)
CumprodTo(r, i) ==
  IF i = 0 THEN One ELSE FMul(CumprodTo(r, i - 1), FAdd(One, r[i]))
cumprod1p(r) == Series([i \in 1..Len(r) |-> CumprodTo(r, i)])
\* s / c
div_by(s, c) == Series([i \in 1..Len(s) |-> FDiv(s[i], c)])
\* Series.shift(1)
shift1(s) == Series([i \in 1..Len(s) |-> IF i = 1 THEN NaN ELSE s[i - 1]])
\* Series.rolling(w).mean(): NaN until w values are in the window and
\* whenever the window holds a non-finite value
RECURSIVE SumRange(_, _, _)
SumRange(s, a, b) == IF a > b THEN Zero ELSE FAdd(s[a], SumRange(s, a + 1, b))
rolling_mean(s, w) ==
  Series([i \in 1..Len(s) |->
     IF i < w \/ \E j \in (i - w + 1)..i : ~IsFin(s[j])
       THEN NaN ELSE FDiv(SumRange(s, i - w + 1, i), Num(w))])
\* s.loc[d:] as the position of its first row, Len(idx) + 1 when empty
FirstAtOrAfter_last(idx, d) ==
  IF \E i \in 1..Len(idx) : idx[i] >= d
    THEN CHOOSE i \in 1..Len(idx) : idx[i] >= d /\ \A j \in 1..(i - 1) : idx[j] < d
    ELSE Len(idx)
FirstAtOrAfter(idx, d) ==
  IF \E i \in 1..Len(idx) : idx[i] >= d
    THEN CHOOSE i \in 1..Len(idx) : idx[i] >= d /\ \A j \in 1..(i - 1) : idx[j] < d
    ELSE Len(idx) + 1
\* Series.first_valid_index(), 0 for None
first_valid(s) ==
  IF \E i \in 1..Len(s) : ~IsNaN(s[i])
    THEN CHOOSE i \in 1..Len(s) : ~IsNaN(s[i]) /\ \A j \in 1..(i - 1) : IsNaN(s[j])
    ELSE 0

\* ----------------------------------------------------- download_data
Tickers == {"GSPC", "IXIC", "NDX", "QQQ", "TQQQ", "IAU", "GCF"}
\* line 90: raw["Close"].ffill().bfill(), column by column
Clean_bfill_first(raw) == [tk \in DOMAIN raw |-> ffill(bfill(raw[tk]))]
Clean(raw) == [tk \in DOMAIN raw |-> bfill(ffill(raw[tk]))]

\* ------------------------------------------------ build_stock_returns
\* first days of 1927, 1971, 1986, 2000, 2010
Y1927 == 9861
Y1971 == 25932
Y1986 == 31411
Y2000 == 36524
Y2010 == 40177
\* lines 137-142: the ticker whose return is assigned to date d ("" = none)
EraTicker(d) ==
  IF d < Y1927 THEN ""
  ELSE IF d < Y1971 THEN "GSPC"
  ELSE IF d < Y1986 THEN "IXIC"
  ELSE IF d < Y2000 THEN "NDX"
  ELSE "QQQ"
\* lines 130-144: the stitched unleveraged return
UnleveragedReturns(close, idx) ==
  LET pc == [tk \in DOMAIN close |-> pct_change(close[tk])]
  IN  fillna0(replace_inf(
        [i \in 1..Len(idx) |->
           IF EraTicker(idx[i]) = "" THEN NaN ELSE pc[EraTicker(idx[i])][i]]))
\* lines 151-152: leverage applied before 2010, TQQQ's own return from 2010
LeveragedReturns(close, idx, leverage) ==
  LET r == UnleveragedReturns(close, idx)
      t == fillna0(pct_change(close["TQQQ"]))
  IN  Series([i \in 1..Len(idx) |->
                IF idx[i] >= Y2010 THEN t[i] ELSE FMul(r[i], Num(leverage))])
\* lines 147-148 and 155-156: cumulative product, rebased on the first row
NavOf(r) == LET c == cumprod1p(r) IN div_by(c, c[1])

\* ------------------------------------------------- build_gold_returns
\* lines 165-171
GoldReturns(close, idx) ==
  LET n == Len(idx)
      s == first_valid(close["IAU"])
      g == pct_change(close["GCF"])
      e == pct_change(close["IAU"])
      \* .loc[:iau_start] and .loc[iau_start:] are the whole series for None
      upto == IF s = 0 THEN n ELSE s
      from == IF s = 0 THEN 1 ELSE s
  IN  fillna0(replace_inf(
        [i \in 1..n |-> IF i >= from THEN e[i] ELSE IF i <= upto THEN g[i] ELSE NaN]))

\* lines 138-142: the slices of r_series that are assigned, by their first
\* and last day; the last slice has no upper end
Forever == 1000000
EraSlices ==
  { [src |-> "GSPC", lo |-> Y1927, hi |-> Y1971 - 1],
    [src |-> "IXIC", lo |-> Y1971, hi |-> Y1986 - 1],
    [src |-> "NDX",  lo |-> Y1986, hi |-> Y2000 - 1],
    [src |-> "QQQ",  lo |-> Y2000, hi |-> Y2010 - 1],
    [src |-> "QQQ",  lo |-> Y2010, hi |-> Forever] }
\* the slices that assign the row dated d
StockAssignments(d) == {e \in EraSlices : e.lo <= d /\ d <= e.hi}
\* lines 168-169: the series assigned to row i of r_gold; label slices hold
\* both of their ends
GoldAssignments(close, i) ==
  LET s == first_valid(close["IAU"])
  IN  (IF s = 0 \/ i <= s THEN {"GCF"} ELSE {}) \cup
      (IF s = 0 \/ i >= s THEN {"IAU"} ELSE {})

\* ---------------------------------------------------- generate_signal
\* line 193
MovingAverage(nav, ma_period) == rolling_mean(nav, ma_period)
\* line 195: yesterday's NAV against yesterday's moving average
SignalOf_noshift(nav, ma) == Series([i \in 1..Len(nav) |-> FGt(nav[i], ma[i])])
SignalOf(nav, ma) ==
  LET a == shift1(nav)
      b == shift1(ma)
  IN  Series([i \in 1..Len(nav) |-> FGt(a[i], b[i])])

\* ----------------------------------------- run_backtest lines 357-365
StrategyReturns_swapped(signal, r_stock, r_gold) ==
  Series([i \in 1..Len(signal) |-> IF signal[i] THEN r_gold[i] ELSE r_stock[i]])
StrategyReturns(signal, r_stock, r_gold) ==
  Series([i \in 1..Len(signal) |-> IF signal[i] THEN r_stock[i] ELSE r_gold[i]])
\* line 365: the return of the benchmark
Sp500Returns(close) == fillna0(pct_change(close["GSPC"]))
Sp500Nav(close) == cumprod1p(Sp500Returns(close))

\* ----------------------------------------- run_backtest lines 374-392
\* s.loc[actual_start:]
TrimFrom(s, k) == Series([i \in 1..(Len(s) - k + 1) |-> s[i + k - 1]])
\* s / s.iloc[0] on the trimmed series
Rebase_none(s) == s
Rebase(s) == div_by(s, s[1])

\* ------------------------------------------------ metrics and analytics
\* x >= y on floats: false when either side is NaN
FGe(x, y) == ~IsNaN(x) /\ ~IsNaN(y) /\ ~FGt(y, x)
\* Series.cummax(): the running maximum of the valid values, NaN at a NaN
RECURSIVE CummaxTo(_, _)
CummaxTo(s, i) ==
  IF i = 0 THEN NaN
  ELSE LET m == CummaxTo(s, i - 1)
       IN  IF IsNaN(s[i]) THEN m
           ELSE IF IsNaN(m) \/ FGt(s[i], m) THEN s[i] ELSE m
cummax(s) == Series([i \in 1..Len(s) |-> IF IsNaN(s[i]) THEN NaN ELSE CummaxTo(s, i)])
\* calculate_drawdown_series: nav / nav.cummax() - 1
calculate_drawdown_series(nav) ==
  LET high == cummax(nav)
  IN  Series([i \in 1..Len(nav) |-> FSub(FDiv(nav[i], high[i]), One)])
\* Series.idxmin(): the first position of the least valid value, 0 when no
\* value is valid
idxmin(s) ==
  IF \A i \in 1..Len(s) : IsNaN(s[i]) THEN 0
  ELSE CHOOSE i \in 1..Len(s) :
         /\ ~IsNaN(s[i])
         /\ \A j \in 1..Len(s) : ~FGt(s[i], s[j])
         /\ \A j \in 1..(i - 1) : IsNaN(s[j]) \/ FGt(s[j], s[i])
\* the value None of recovery_days
NoRecovery == -1
\* calculate_recovery_days on a series with index idx, for idxmin(dd) > 0
calculate_recovery_days(nav, idx) ==
  LET high == cummax(nav)
      mdd_idx == idxmin(calculate_drawdown_series(nav))
      recovered == {j \in mdd_idx..Len(nav) : FGe(nav[j], high[mdd_idx])}
  IN  IF recovered = {} THEN NoRecovery
      ELSE idx[CHOOSE j \in recovered : \A l \in recovered : j <= l] - idx[mdd_idx]
\* |x| and x * |x| on floats.  A square root is not rational: a value v
\* that the source obtains through one (std, volatility, Sharpe, Sortino,
\* rolling Sharpe) is carried as its signed square v * |v|, which is strictly
\* increasing in v and maps 0, NaN and the infinities to themselves
FAbs(x) == <<Abs(x[1]), x[2]>>
SignedSquare(x) == FMul(x, FAbs(x))
\* Series.sum(), .count(), .mean(): over the valid values
RECURSIVE SumTo(_, _)
SumTo(s, i) ==
  IF i = 0 THEN Zero
  ELSE IF IsNaN(s[i]) THEN SumTo(s, i - 1) ELSE FAdd(SumTo(s, i - 1), s[i])
count(s) == Cardinality({i \in 1..Len(s) : ~IsNaN(s[i])})
mean(s) == IF count(s) = 0 THEN NaN ELSE FDiv(SumTo(s, Len(s)), Num(count(s)))
\* Series.std() squared: the sample variance (ddof = 1) of the valid values
var(s) ==
  IF count(s) < 2 \/ \E i \in 1..Len(s) : IsInf(s[i]) THEN NaN
  ELSE LET m == mean(s)
           sq == [i \in 1..Len(s) |->
                    IF IsNaN(s[i]) THEN NaN
                    ELSE FMul(FSub(s[i], m), FSub(s[i], m))]
       IN  FDiv(SumTo(sq, Len(s)), Num(count(s) - 1))
\* returns[returns < 0]
negative(returns) == SelectSeq(returns, LAMBDA x : FGt(Zero, x))

\* calculate_volatility (as its square): std * sqrt(252)
calculate_volatility(returns) == FMul(var(returns), Num(252))
\* calculate_sharpe (as its signed square)
calculate_sharpe_unguarded(returns) ==
  FDiv(SignedSquare(FMul(mean(returns), Num(252))), calculate_volatility(returns))
calculate_sharpe(returns) ==
  LET vol == calculate_volatility(returns)
  IN  IF FGt(vol, Zero)
        THEN FDiv(SignedSquare(FMul(mean(returns), Num(252))), vol)
        ELSE NaN
\* calculate_sortino (as its signed square)
calculate_sortino(returns) ==
  LET downside == FMul(var(negative(returns)), Num(252))
  IN  IF FGt(downside, Zero)
        THEN FDiv(SignedSquare(FMul(mean(returns), Num(252))), downside)
        ELSE NaN
\* calculate_max_drawdown: dd.min(), NaN when no value is valid
calculate_max_drawdown_last(nav) == calculate_drawdown_series(nav)[Len(nav)]
calculate_max_drawdown(nav) ==
  LET dd == calculate_drawdown_series(nav)
  IN  IF idxmin(dd) = 0 THEN NaN ELSE dd[idxmin(dd)]
\* calculate_calmar
calculate_calmar(cagr, mdd) == IF FGt(Zero, mdd) THEN FDiv(cagr, FAbs(mdd)) ELSE NaN
\* calculate_win_rate: (returns > 0).mean()
calculate_win_rate(returns) ==
  IF Len(returns) = 0 THEN NaN
  ELSE Rat(Cardinality({i \in 1..Len(returns) : FGt(returns[i], Zero)}), Len(returns))
\* calculate_rolling_sharpe(returns, window) (as its signed square): NaN until
\* the window is full, then rolling mean * 252 over rolling std * sqrt(252),
\* the infinities replaced by NaN
RollingSharpeWindow == 252
rolling_ratio(returns, win) ==
  Series([i \in 1..Len(returns) |->
     IF i < win \/ \E j \in (i - win + 1)..i : ~IsFin(returns[j])
       THEN NaN
       ELSE LET w == SubSeq(returns, i - win + 1, i)
            IN  FDiv(SignedSquare(FMul(mean(w), Num(252))), FMul(var(w), Num(252)))])
calculate_rolling_sharpe(returns, win) == replace_inf(rolling_ratio(returns, win))
\* calculate_cagr divides 1 by the years between the first and the last date
CagrRaises(idx) == idx[Len(idx)] = idx[1]
\* calculate_cagr: (nav.iloc[-1] / nav.iloc[0]) ** (365 / days) - 1, carried
\* as the total return nav.iloc[-1] / nav.iloc[0] - 1, which has the same
\* sign, zeros, NaN and infinities; a negative ratio to a power that is not
\* an integer is NaN
calculate_cagr(nav, idx) ==
  LET ratio == FDiv(nav[Len(nav)], nav[1])
      days == idx[Len(idx)] - idx[1]
  IN  IF ratio[1] < 0 /\ 365 % days # 0 THEN NaN ELSE FSub(ratio, One)
\* calculate_all_metrics, for a series of more than one date
calculate_all_metrics(nav, returns, idx) ==
  [final_nav |-> nav[Len(nav)],
   cagr |-> calculate_cagr(nav, idx),
   volatility |-> calculate_volatility(returns),
   sharpe |-> calculate_sharpe(returns),
   sortino |-> calculate_sortino(returns),
   max_drawdown |-> calculate_max_drawdown(nav),
   win_rate |-> calculate_win_rate(returns),
   calmar |-> calculate_calmar(calculate_cagr(nav, idx), calculate_max_drawdown(nav)),
   start_date |-> idx[1],
   end_date |-> idx[Len(idx)]]
\* the first day of year y (1901..2100) and the year of day d
YearStart(y) == 365 * (y - 1900) + (y - 1901) \div 4
YearOf(d) ==
  CHOOSE y \in (1900 + d \div 366)..(1901 + d \div 366) :
    YearStart(y) <= d /\ d < YearStart(y + 1)
\* nav.resample("YE").last(): per year from the first to the last, the last
\* valid value of the year, NaN when it has none
LastOfYear(nav, idx, y) ==
  LET rows == {i \in 1..Len(nav) : YearOf(idx[i]) = y /\ ~IsNaN(nav[i])}
  IN  IF rows = {} THEN NaN ELSE nav[CHOOSE i \in rows : \A j \in rows : j <= i]
YearEnds(nav, idx) ==
  Series([n \in 1..(YearOf(idx[Len(idx)]) - YearOf(idx[1]) + 1) |->
            LastOfYear(nav, idx, YearOf(idx[1]) + n - 1)])
\* calculate_annual_returns: year -> percentage, the years whose change is
\* NaN dropped.  pct_change() without fill_method forward-fills the series
\* first (pad) in the pandas releases where that is the default
calculate_annual_returns(nav, idx, pad) ==
  LET annual_nav == YearEnds(nav, idx)
      annual_ret == pct_change(IF pad THEN ffill(annual_nav) ELSE annual_nav)
      kept == {n \in 1..Len(annual_ret) : ~IsNaN(annual_ret[n])}
  IN  [y \in {YearOf(idx[1]) + n - 1 : n \in kept} |->
         FMul(annual_ret[y - YearOf(idx[1]) + 1], Num(100))]

\* ------------------------------------------------- the pipeline run
\* the tables start on 2009-12-30, 2009-12-31, 1970-12-30 or 2005-01-21 and hold
\* consecutive days; the prices of ticker full vary, ticker part is missing
\* up to its first trading day, every other ticker has the constant price 1
Scenarios ==
  { [base |-> 40175, full |-> "QQQ",  part |-> "TQQQ"],
    [base |-> 40175, full |-> "TQQQ", part |-> "QQQ"],
    [base |-> 40176, full |-> "QQQ",  part |-> "TQQQ"],
    [base |-> 25930, full |-> "GSPC", part |-> "IXIC"],
    [base |-> 38371, full |-> "IAU",  part |-> "GCF"],
    [base |-> 38371, full |-> "GCF",  part |-> "IAU"] }
\* the values of one cell of the frame yf.download returns
Cells == {NaN, Zero, Num(1), Num(2)}
Columns == [1..MaxRows -> Cells]
\* a ticker that is listed from some row of the table on, or never
Presence == {[i \in 1..MaxRows |-> IF i < k THEN NaN ELSE One] : k \in 1..(MaxRows + 1)}
Flat == [i \in 1..MaxRows |-> One]
\* moving-average windows: one that fills within the table, one that does not
PipeMa == {2, MaxRows + 1}

NoPipe ==
  [st |-> "off", idx |-> <<>>, raw |-> <<>>, close |-> <<>>, lev |-> 0, ma |-> 0,
   r_stock |-> <<>>, stock_nav |-> <<>>, stock_nav_1x |-> <<>>, r_gold |-> <<>>,
   gold_nav |-> <<>>, signal |-> <<>>, stock_ma |-> <<>>, r_strategy |-> <<>>,
   nav_full |-> <<>>, sp500_nav_full |-> <<>>, cut |-> 0, altSignal |-> <<>>,
   user_start |-> 0, actual |-> 0, res |-> <<>>, err |-> "", sent |-> <<>>]

\* download_data line 90 on the frame the provider returned
CleanTable ==
  /\ pipe.st = "raw"
  /\ pipe' = [pipe EXCEPT !.st = "close", !.close = Clean(pipe.raw)]
  /\ UNCHANGED <<ctlVars, fetch, calc>>

\* run_backtest lines 351-352 (Build Legs); close["^GSPC"] ... close["TQQQ"]
\* (lines 130-134) and close["IAU"], close["GC=F"] (lines 166-169) raise
\* KeyError on a table without that column
BuildLegs ==
  /\ pipe.st = "close"
  /\ \E leverage \in Leverages :
       IF Tickers \subseteq DOMAIN pipe.close
         THEN LET r3 == LeveragedReturns(pipe.close, pipe.idx, leverage)
                  rg == GoldReturns(pipe.close, pipe.idx)
              IN  pipe' = [pipe EXCEPT
                             !.st = "legs", !.lev = leverage,
                             !.r_stock = r3,
                             !.stock_nav = NavOf(r3),
                             !.stock_nav_1x = NavOf(UnleveragedReturns(pipe.close, pipe.idx)),
                             !.r_gold = rg,
                             !.gold_nav = NavOf(rg)]
         ELSE pipe' = [pipe EXCEPT !.st = "nolegs", !.lev = leverage, !.err = "KeyError"]
  /\ UNCHANGED <<ctlVars, fetch, calc>>

\* run_backtest line 355 (Signal)
GenerateSignal ==
  /\ pipe.st = "legs"
  /\ \E ma_period \in PipeMa :
       LET m == MovingAverage(pipe.stock_nav, ma_period)
       IN  pipe' = [pipe EXCEPT !.st = "signal", !.ma = ma_period,
                                !.stock_ma = m,
                                !.signal = SignalOf(pipe.stock_nav, m)]
  /\ UNCHANGED <<ctlVars, fetch, calc>>

\* the table with every price dated idx[t] or later missing
Blind(raw, t) ==
  [tk \in DOMAIN raw |-> [i \in 1..Len(raw[tk]) |-> IF i >= t THEN NaN ELSE raw[tk][i]]]
\* lines 90, 351, 355 in sequence: the signal of a raw table
SignalOfTable(raw, idx, leverage, ma_period) ==
  LET nav == NavOf(LeveragedReturns(Clean(raw), idx, leverage))
  IN  SignalOf(nav, MovingAverage(nav, ma_period))

\* a second run with the same parameters on the table from which the prices
\* dated idx[t] or later have been removed
Replay ==
  /\ pipe.st = "signal"
  /\ \E t \in 1..Len(pipe.idx) :
       pipe' = [pipe EXCEPT !.st = "replayed", !.cut = t,
                            !.altSignal = SignalOfTable(Blind(pipe.raw, t), pipe.idx,
                                                        pipe.lev, pipe.ma)]
  /\ UNCHANGED <<ctlVars, fetch, calc>>

\* run_backtest lines 358-365 (Compose)
Compose ==
  /\ pipe.st = "signal"
  /\ LET rs == StrategyReturns(pipe.signal, pipe.r_stock, pipe.r_gold)
     IN  pipe' = [pipe EXCEPT !.st = "composed",
                              !.r_strategy = rs,
                              !.nav_full = cumprod1p(rs),
                              !.sp500_nav_full = Sp500Nav(pipe.close)]
  /\ UNCHANGED <<ctlVars, fetch, calc>>

\* run_backtest lines 369-413 (Trim and Renormalize, metrics, analytics)
Trimmed(p, k) ==
  LET nav == Rebase(TrimFrom(p.nav_full, k))
      dates == TrimFrom(p.idx, k)
  IN  [nav |-> nav,
       metrics |-> IF CagrRaises(dates) THEN <<>>
                   ELSE calculate_all_metrics(nav, TrimFrom(p.r_strategy, k), dates),
       stock_nav |-> Rebase(TrimFrom(p.stock_nav, k)),
       stock_nav_1x |-> Rebase(TrimFrom(p.stock_nav_1x, k)),
       gold_nav |-> Rebase(TrimFrom(p.gold_nav, k)),
       sp500_nav |-> Rebase(TrimFrom(p.sp500_nav_full, k)),
       stock_ma |-> div_by(TrimFrom(p.stock_ma, k), p.stock_nav[k]),
       signal |-> TrimFrom(p.signal, k),
       r_strategy |-> TrimFrom(p.r_strategy, k),
       drawdown_series |-> calculate_drawdown_series(nav),
       rolling_sharpe |-> calculate_rolling_sharpe(p.r_strategy, RollingSharpeWindow),
       recovery_days |-> IF idxmin(calculate_drawdown_series(nav)) = 0
                           THEN NoRecovery
                           ELSE calculate_recovery_days(nav, dates)]
\* lines 396-397, not reached when calculate_cagr raised
AnnualReturns(res, dates, pad) ==
  IF CagrRaises(dates)
    THEN [annual_returns |-> <<>>, sp500_annual_returns |-> <<>>]
    ELSE [annual_returns |-> calculate_annual_returns(res.nav, dates, pad),
          sp500_annual_returns |-> calculate_annual_returns(res.sp500_nav, dates, pad)]

\* the run ends with RuntimeError (line 371) when no row is on or after
\* user_start, with ZeroDivisionError in calculate_cagr (line 204) when one
\* row is left, and with a result otherwise; when the trimmed NAV has no
\* valid value, idxmin (line 236) and the slice from its result raise or
\* give None depending on the pandas release, and so does the default
\* fill of pct_change in calculate_annual_returns
Trim ==
  /\ pipe.st = "composed"
  /\ \E d \in {pipe.idx[i] : i \in 1..Len(pipe.idx)} \cup {pipe.idx[Len(pipe.idx)] + 1} :
       \E k \in {FirstAtOrAfter(pipe.idx, d)} :
         IF k > Len(pipe.idx)
           THEN pipe' = [pipe EXCEPT !.st = "empty", !.user_start = d,
                                     !.err = "RuntimeError_no_data"]
           ELSE \E series \in {Trimmed(pipe, k)} :
                \E annual \in {AnnualReturns(series, TrimFrom(pipe.idx, k), pad) :
                                 pad \in BOOLEAN} :
                \E raises \in IF /\ ~CagrRaises(TrimFrom(pipe.idx, k))
                                  /\ \A i \in 1..Len(series.nav) :
                                       IsNaN(series.drawdown_series[i])
                                 THEN BOOLEAN ELSE {FALSE} :
                  pipe' = [pipe EXCEPT
                             !.st = IF raises \/ CagrRaises(TrimFrom(pipe.idx, k))
                                      THEN "failed" ELSE "trimmed",
                             !.err = IF CagrRaises(TrimFrom(pipe.idx, k))
                                       THEN "ZeroDivisionError"
                                       ELSE IF raises THEN "idxmin_all_NA" ELSE "",
                             !.user_start = d, !.actual = k, !.res = annual @@ series]
  /\ UNCHANGED <<ctlVars, fetch, calc>>

\* api.py lines 121-144 (routers/backtest.py lines 97-118): the zones of a
\* signal series, the loop unrolled from position i with the zones so far
RECURSIVE ZoneLoop_gap(_, _, _, _, _, _)
ZoneLoop_gap(sig, idx, i, current_signal, zone_start, zones) ==
  IF i > Len(sig)
    THEN Append(zones, [start |-> zone_start, end |-> idx[Len(idx)],
                        is_stock |-> current_signal])
    ELSE IF sig[i] # current_signal
      THEN ZoneLoop_gap(sig, idx, i + 1, sig[i], idx[i],
                        Append(zones, [start |-> zone_start, end |-> idx[i - 1],
                                       is_stock |-> current_signal]))
      ELSE ZoneLoop_gap(sig, idx, i + 1, current_signal, zone_start, zones)
signal_zones_gap(sig, idx) ==
  IF Len(sig) > 0 THEN ZoneLoop_gap(sig, idx, 1, sig[1], idx[1], <<>>) ELSE <<>>
RECURSIVE ZoneLoop(_, _, _, _, _, _)
ZoneLoop(sig, idx, i, current_signal, zone_start, zones) ==
  IF i > Len(sig)
    THEN Append(zones, [start |-> zone_start, end |-> idx[Len(idx)],
                        is_stock |-> current_signal])
    ELSE IF sig[i] # current_signal
      THEN ZoneLoop(sig, idx, i + 1, sig[i], idx[i],
                    Append(zones, [start |-> zone_start, end |-> idx[i],
                                   is_stock |-> current_signal]))
      ELSE ZoneLoop(sig, idx, i + 1, current_signal, zone_start, zones)
signal_zones(sig, idx) ==
  IF Len(sig) > 0 THEN ZoneLoop(sig, idx, 1, sig[1], idx[1], <<>>) ELSE <<>>

\* the JSON null
None == <<"null">>
\* api.py lines 50-56 (routers/backtest.py lines 31-37)
safe_value(v) == IF IsNaN(v) THEN None ELSE IF IsInf(v) THEN None ELSE v
\* lines 59-69: the points of a series, those with value None filtered out
\* (a series of more than 1000 rows is resampled by week first; the tables
\* here are shorter)
series_points(s, idx) ==
  SelectSeq([i \in 1..Len(s) |-> [date |-> idx[i], value |-> safe_value(s[i])]],
            LAMBDA pt : pt.value # None)
times100(s) == Series([i \in 1..Len(s) |-> FMul(s[i], Num(100))])
\* api.py lines 58-193: the body of the successful response; the rolling
\* Sharpe series is the untrimmed one, so its dates are those of the table
Payload(p) ==
  LET dates == TrimFrom(p.idx, p.actual)
  IN  [metrics |-> [recovery_days |-> p.res.recovery_days] @@ p.res.metrics,
       annual_returns |-> p.res.annual_returns,
       sp500_annual_returns |-> p.res.sp500_annual_returns,
       nav_series |-> series_points(p.res.nav, dates),
       stock_series |-> series_points(p.res.stock_nav, dates),
       stock_1x_series |-> series_points(p.res.stock_nav_1x, dates),
       gold_series |-> series_points(p.res.gold_nav, dates),
       ma_series |-> series_points(p.res.stock_ma, dates),
       sp500_series |-> series_points(p.res.sp500_nav, dates),
       signal_zones |-> signal_zones(p.res.signal, dates),
       drawdown_series |-> series_points(times100(p.res.drawdown_series), dates),
       rolling_sharpe_series |-> series_points(p.res.rolling_sharpe, p.idx)]
Serialize ==
  /\ pipe.st = "trimmed"
  /\ pipe.sent = <<>>
  /\ pipe' = [pipe EXCEPT !.sent = Payload(pipe)]
  /\ UNCHANGED <<ctlVars, fetch, calc>>

(***************************************************************************)
(* Part III: the fetch window.  Day 0 is Monday 1900-01-01, so the         *)
(* weekdays are the days d with d % 7 < 5.                                 *)
(***************************************************************************)
\* the moving-average periods the API accepts
MinMaPeriod == 5
MaxMaPeriod == 500
\* the seven days from Monday 2024-01-01, 1928-01-01, the two days before
\* it (Friday 1927-12-30 and Saturday 1927-12-31), and 1900-01-01
WinStarts ==
  (45290..45296) \cup
  {EARLIEST_RECOMMENDED_START, EARLIEST_RECOMMENDED_START - 1,
   EARLIEST_RECOMMENDED_START - 2, 0}
NoFetch ==
  [st |-> "off", ma |-> 0, start |-> 0, end |-> 0, user_start |-> 0,
   extended_start |-> 0, clamped |-> FALSE, rows |-> {}, actual |-> 0, before |-> 0,
   ma_defined |-> FALSE]
IsWeekday(d) == d % 7 < 5

\* run_backtest lines 316-334: the range is validated on the requested
\* start, then the start and the extended start are clamped
ExtendWindow ==
  /\ fetch.st = "request"
  /\ IF RangeInvalid(fetch.start, fetch.end)
       THEN fetch' = [fetch EXCEPT !.st = "invalid"]
       ELSE fetch' = [fetch EXCEPT
                        !.st = "window",
                        !.user_start = ResolvedStart(fetch.start),
                        !.extended_start = ExtendedStart(fetch.start, fetch.ma),
                        !.clamped = ResolvedStart(fetch.start) - ExtDays(fetch.ma)
                                      < EARLIEST_DATA_DATE]
  /\ UNCHANGED <<ctlVars, pipe, calc>>

\* line 348 against a provider that has a row for every weekday from
\* extended_start up to, not including, end; download_data raises
\* (lines 104-119) when every attempt returned an empty table (line 89)
FetchWeekdays ==
  /\ fetch.st = "window"
  /\ \E got \in {{d \in fetch.extended_start..(fetch.end - 1) : IsWeekday(d)}} :
       fetch' = [fetch EXCEPT
                   !.st = IF got = {} THEN "unavailable" ELSE "fetched",
                   !.rows = got]
  /\ UNCHANGED <<ctlVars, pipe, calc>>

\* lines 369-372 and 193: the first row on or after user_start, the rows on
\* or before it, and whether rolling(ma_period) has a full window there
TrimStart ==
  /\ fetch.st = "fetched"
  /\ \/ /\ \A d \in fetch.rows : d < fetch.user_start
        /\ fetch' = [fetch EXCEPT !.st = "empty"]
     \/ \E actual_start \in fetch.user_start..(fetch.end - 1) :
          /\ actual_start \in fetch.rows
          /\ \A e \in fetch.user_start..(actual_start - 1) : e \notin fetch.rows
          /\ \E n \in {Cardinality({d \in fetch.rows : d <= actual_start})} :
               fetch' = [fetch EXCEPT !.st = "trimmed", !.actual = actual_start,
                                      !.before = n, !.ma_defined = n >= fetch.ma]
  /\ UNCHANGED <<ctlVars, pipe, calc>>

(***************************************************************************)
(* Part IV: the metric functions and the signal zones of the HTTP layer,   *)
(* each applied to one drawn argument.                                     *)
(***************************************************************************)
\* the longest argument series
CalcLen == MaxRows + 1
\* daily returns, NAV values and CAGR values the functions are applied to
RetCells == {NaN, Rat(-1, 1), Rat(-1, 2), Zero, Rat(1, 2)}
NavCells == {NaN, Zero, Rat(1, 2), One, Num(2)}
CagrCells == {NaN, NInf, Rat(-1, 2), Zero, Rat(1, 2), PInf}
\* rolling windows that fill within CalcLen values
RollingWindows == {2, 3}
\* consecutive dates from Monday 2024-01-01
CalcDates(n) == [i \in 1..n |-> 45290 + i - 1]
NoCalc == [st |-> "off", arg |-> <<>>, par |-> <<>>, out |-> <<>>]

\* calculate_volatility, calculate_sharpe, calculate_sortino on a series of
\* returns
ApplyRatios ==
  /\ calc.st = "returns"
  /\ calc' = [calc EXCEPT !.st = "ratios",
                          !.out = [volatility |-> calculate_volatility(calc.arg),
                                   sharpe |-> calculate_sharpe(calc.arg),
                                   sortino |-> calculate_sortino(calc.arg)]]
  /\ UNCHANGED <<ctlVars, pipe, fetch>>

\* calculate_rolling_sharpe on a series of returns
ApplyRolling ==
  /\ calc.st = "returns"
  /\ \E win \in RollingWindows :
       calc' = [calc EXCEPT !.st = "rolled", !.par = win,
                            !.out = calculate_rolling_sharpe(calc.arg, win)]
  /\ UNCHANGED <<ctlVars, pipe, fetch>>

\* calculate_drawdown_series, calculate_max_drawdown on a NAV series and
\* calculate_calmar on its max drawdown and a CAGR
ApplyDrawdown ==
  /\ calc.st = "nav"
  /\ \E cagr \in CagrCells :
       calc' = [calc EXCEPT !.st = "drawdown", !.par = cagr,
                            !.out = [drawdown_series |-> calculate_drawdown_series(calc.arg),
                                     max_drawdown |-> calculate_max_drawdown(calc.arg),
                                     calmar |-> calculate_calmar(
                                                  cagr, calculate_max_drawdown(calc.arg))]]
  /\ UNCHANGED <<ctlVars, pipe, fetch>>

\* the signal zones of a signal series
ApplyZones ==
  /\ calc.st = "signal"
  /\ calc' = [calc EXCEPT !.st = "zones", !.par = CalcDates(Len(calc.arg)),
                          !.out = signal_zones(calc.arg, CalcDates(Len(calc.arg)))]
  /\ UNCHANGED <<ctlVars, pipe, fetch>>

(***************************************************************************)
(* The specifications                                                      *)
(***************************************************************************)
Step(p) ==
  \/ Call(p)
  \/ ResolveRange(p)
  \/ DownloadEnter(p)
  \/ CacheLoad(p)
  \/ FetchAttempt(p)
  \/ CacheDump(p)
  \/ RaiseExhausted(p)
  \/ RunPipeline(p)
  \/ Return(p)

InitCtl(ps, ws) ==
  /\ now = Clock0
  /\ cache = <<>>
  /\ run = [p \in Procs |-> Idle]
  /\ window \in ws
  /\ active = ps
  /\ persisted = <<>>
  /\ warmOut = <<>>

\* one caller at a time
Init == InitCtl({1}, Windows) /\ pipe = NoPipe /\ fetch = NoFetch /\ calc = NoCalc
Next == Tick \/ \E p \in Procs : Step(p)
Spec == Init /\ [][Next]_vars

\* concurrent callers of one fetch window, within one hour
RaceWindows == {[start |-> 45290, end |-> Today0 - 2, ma |-> 200, lev |-> 3]}
InitRace == InitCtl(Procs, RaceWindows) /\ pipe = NoPipe /\ fetch = NoFetch /\ calc = NoCalc
NextRace == \E p \in Procs : Step(p)
SpecRace == InitRace /\ [][NextRace]_vars

\* one run of the pipeline on each table of the scenarios
InitPipe ==
  /\ InitCtl({}, {NoReq})
  /\ fetch = NoFetch
  /\ calc = NoCalc
  /\ \E sc \in Scenarios :
       \/ \E c1 \in Columns, c2 \in Presence :
            pipe = [NoPipe EXCEPT
                      !.st = "raw",
                      !.idx = [i \in 1..MaxRows |-> sc.base + i - 1],
                      !.raw = [tk \in Tickers |->
                                 IF tk = sc.full THEN c1 ELSE IF tk = sc.part THEN c2 ELSE Flat]]
       \/ \E lacking \in Tickers :
            pipe = [NoPipe EXCEPT
                      !.st = "raw",
                      !.idx = [i \in 1..MaxRows |-> sc.base + i - 1],
                      !.raw = [tk \in Tickers \ {lacking} |-> Flat]]
NextPipe ==
  CleanTable \/ BuildLegs \/ GenerateSignal \/ Replay \/ Compose \/ Trim \/ Serialize
SpecPipe == InitPipe /\ [][NextPipe]_vars

\* one caller, the clock standing still, the run taken stage by stage
StagedStep(p) ==
  \/ Call(p)
  \/ ResolveRange(p)
  \/ DownloadEnter(p)
  \/ CacheLoad(p)
  \/ FetchAttempt(p)
  \/ CacheDump(p)
  \/ RaiseExhausted(p)
  \/ StageBuildLegs(p)
  \/ StageSignal(p)
  \/ StageCompose(p)
  \/ StageTrim(p)
  \/ StageSummarize(p)
  \/ Return(p)
NextStages == \E p \in Procs : StagedStep(p)
SpecStages == Init /\ [][NextStages]_vars

\* the fetch window of one run, for every moving-average period
InitWin ==
  /\ InitCtl({}, {NoReq})
  /\ pipe = NoPipe
  /\ calc = NoCalc
  /\ \E ma_period \in MinMaPeriod..MaxMaPeriod, start \in WinStarts :
       \E end \in {start, start + 2, ResolvedStart(start) + 1, ResolvedStart(start) + 7} :
         fetch = [NoFetch EXCEPT !.st = "request", !.ma = ma_period, !.start = start,
                                 !.end = end]
NextWin == ExtendWindow \/ FetchWeekdays \/ TrimStart
SpecWin == InitWin /\ [][NextWin]_vars

\* one function applied to one argument
InitCalc ==
  /\ InitCtl({}, {NoReq})
  /\ pipe = NoPipe
  /\ fetch = NoFetch
  /\ \E n \in 0..CalcLen :
       \/ \E r \in [1..n -> RetCells] : calc = [NoCalc EXCEPT !.st = "returns", !.arg = r]
       \/ \E nav \in [1..n -> NavCells] : n > 0 /\ calc = [NoCalc EXCEPT !.st = "nav", !.arg = nav]
       \/ \E sig \in [1..n -> BOOLEAN] : calc = [NoCalc EXCEPT !.st = "signal", !.arg = sig]
NextCalc == ApplyRatios \/ ApplyRolling \/ ApplyDrawdown \/ ApplyZones
SpecCalc == InitCalc /\ [][NextCalc]_vars

(***************************************************************************)
(* Claims about run_backtest / download_data                               *)
(***************************************************************************)
Exhausted(r) == r.pc = "failed" /\ r.err # "ValueError"
Returned(r) == r.pc \in {"build", "done"}

\* C3: a run whose start is not strictly before its end fails with the
\* invalid-range error (ValueError) and never reaches download_data: it makes
\* no cache check, no cache read, no fetch attempt and no cache write.
C3_InvalidRangeFailsFast ==
  \A p \in Procs :
    LET r == run[p]
    IN  (r.pc # "idle" /\ r.req.start >= r.req.end) =>
          /\ r.pc \in {"resolve", "failed"}
          /\ r.pc = "failed" => r.err = "ValueError"
          /\ r.ops = {}
C3_Witness ==
  \E p \in Procs :
    /\ run[p].pc = "failed" /\ run[p].err = "ValueError"
    /\ run[p].req.start = run[p].req.end

\* C4 (as claimed): once a fetch attempt of a call has returned a non-empty
\* table, the loop has ended: the call makes no further attempt and does not
\* raise, it writes the cache and returns the table.
C4_FirstNonEmptyEndsLoop ==
  \A p \in Procs : run[p].nonEmpty => run[p].pc \in {"dump", "build", "done"}

\* C5 (as claimed): a call that used up its retries with an end date later
\* than today fails with the end-date-in-the-future error.
C5_FutureEndIsInvalidRange ==
  \A p \in Procs : (Exhausted(run[p]) /\ run[p].dft < 0) => run[p].err = "future"

\* C6: a call that used up its retries fails with the provider-lag error when
\* its end date is today or yesterday (today as read when the call began), and
\* with the generic error when the end date is two or more days before today.
C6_LagOrGeneric ==
  \A p \in Procs :
    LET r == run[p]
    IN  Exhausted(r) =>
          /\ r.dft \in {0, 1} => r.err = "lag"
          /\ r.dft >= 2 => r.err = "generic"
C6_Witness ==
  \E p \in Procs : Exhausted(run[p]) /\ run[p].dft = 1 /\ run[p].err = "lag"

\* C7: a call that checks the cache while a completely written entry of its
\* key is younger than 4 hours (counted from the end of the write, whatever
\* was read since) makes no fetch attempt and returns the persisted table; a
\* call that finds no such entry, or one 4 hours old or older, fetches.
C7_CacheLifecycle ==
  \A p \in Procs :
    LET r == run[p]
    IN  "check" \in r.ops =>
          /\ r.hit => /\ "fetch" \notin r.ops
                      /\ r.pc # "failed"
                      /\ Returned(r) => r.tbl = r.hitTbl
          /\ (~r.hit /\ (Returned(r) \/ r.pc = "failed")) => "fetch" \in r.ops
C7_Witness ==
  \E p \in Procs :
    /\ run[p].pc = "build" /\ run[p].hit /\ run[p].tbl = run[p].hitTbl
    /\ run[p].key \in DOMAIN persisted
    /\ now = persisted[run[p].key].at + CACHE_TTL_HOURS - 1

\* C8 (as claimed): every table a call gets from the cache is an entry that
\* one writer wrote completely.
C8_ReaderSeesWholeEntry ==
  \A p \in Procs : Returned(run[p]) => IsWhole(run[p].tbl)

\* C9: a run that began and ended while the cache entry of its fetch window
\* was present and not expired returns the same result as the first run with
\* the same parameters that ran under that entry.
C9_WarmRunsAgree ==
  \A p \in Procs :
    LET r == run[p]
    IN  (r.pc = "done" /\ r.warm # 0 /\ HasWarmOut(r)) => r.out = warmOut[r.key].out
C9_Witness ==
  \E p \in Procs :
    /\ run[p].pc = "done" /\ run[p].warm # 0 /\ HasWarmOut(run[p])
    /\ warmOut[run[p].key].n = 2

\* ------------------------------------------------ claims on the pipeline
HasSignal == pipe.st \in {"signal", "replayed", "composed", "empty", "failed", "trimmed"}
\* the mean of the w values of nav that end at row i
TrailingMean(nav, w, i) == FDiv(SumRange(nav, i - w + 1, i), Num(w))
\* NAV[i] > MA[i], false while fewer than w values end at row i
AboveTrailingMean(nav, w, i) ==
  /\ i >= w
  /\ \A j \in (i - w + 1)..i : IsFin(nav[j])
  /\ FGt(nav[i], TrailingMean(nav, w, i))

\* C1: for every row after the first, the signal of the row is true exactly
\* when the NAV of the row before it is above the trailing mean of the
\* window that ends at the row before it; no value of the row itself or of a
\* later row enters it.
C1_SignalIsYesterdaysComparison ==
  HasSignal =>
    \A t \in 2..Len(pipe.signal) :
      pipe.signal[t] <=> AboveTrailingMean(pipe.stock_nav, pipe.ma, t - 1)
C1_Witness ==
  /\ pipe.st = "signal"
  /\ \E t \in 2..Len(pipe.signal) :
       /\ pipe.signal[t]
       /\ ~AboveTrailingMean(pipe.stock_nav, pipe.ma, t)

\* C2: the signal of every date up to idx[cut] is the same on the table and
\* on the table whose prices dated idx[cut] or later were removed; two tables
\* that agree on every price before idx[cut] have the same such table, so
\* they give the same signal up to idx[cut].
C2_NoLookAhead ==
  pipe.st = "replayed" =>
    \A i \in 1..pipe.cut : pipe.altSignal[i] = pipe.signal[i]
C2_Witness ==
  /\ pipe.st = "replayed"
  /\ Clean(Blind(pipe.raw, pipe.cut)) # pipe.close
  /\ \E i \in 2..pipe.cut : pipe.signal[i]
  /\ \E tk \in Tickers : IsNaN(pipe.raw[tk][1]) /\ ~IsNaN(pipe.close[tk][1])

\* C10 (as claimed): every NAV series of a result starts at exactly 1.
C10_FirstNavIsOne ==
  pipe.st = "trimmed" =>
    /\ pipe.res.nav[1] = One
    /\ pipe.res.stock_nav[1] = One
    /\ pipe.res.stock_nav_1x[1] = One
    /\ pipe.res.gold_nav[1] = One
    /\ pipe.res.sp500_nav[1] = One

\* ------------------------------------------------- claims on the legs
HasLegs == pipe.st \notin {"off", "raw", "close", "nolegs"}
HasNavs == pipe.st \in {"composed", "empty", "failed", "trimmed"}
NonNegative(x) == x = PInf \/ (IsFin(x) /\ x[1] >= 0)
\* every price of the table the provider returned is a positive number
PositivePrices ==
  \A tk \in Tickers : \A i \in 1..Len(pipe.idx) :
    IsFin(pipe.raw[tk][i]) /\ pipe.raw[tk][i][1] > 0

\* C11 (as claimed): on a table of positive prices every value of every NAV
\* series is non-negative, whatever the leverage.
C11_NavNonNegative ==
  (HasNavs /\ PositivePrices) =>
    \A i \in 1..Len(pipe.idx) :
      /\ NonNegative(pipe.stock_nav[i])
      /\ NonNegative(pipe.stock_nav_1x[i])
      /\ NonNegative(pipe.gold_nav[i])
      /\ NonNegative(pipe.nav_full[i])
      /\ NonNegative(pipe.sp500_nav_full[i])

\* C12 (as claimed): before the first trading date of TQQQ the leveraged
\* return is the unleveraged return times the leverage, from that date on it
\* is TQQQ's own daily return.
C12_LeverageUntilInception ==
  LET first == first_valid(pipe.raw["TQQQ"])
      own == fillna0(pct_change(pipe.close["TQQQ"]))
      r1x == UnleveragedReturns(pipe.close, pipe.idx)
  IN  (HasLegs /\ first # 0 /\ pipe.idx[first] >= Y2010) =>
        \A i \in 1..Len(pipe.idx) :
          pipe.r_stock[i] = IF i < first THEN FMul(r1x[i], Num(pipe.lev)) ELSE own[i]

\* C13 (as claimed): before the first trading date of IAU the gold return is
\* the return of GC=F, from that date on it is IAU's own return.
C13_FuturesUntilEtf ==
  LET first == first_valid(pipe.raw["IAU"])
      fut == fillna0(replace_inf(pct_change(pipe.close["GCF"])))
      etf == fillna0(replace_inf(pct_change(pipe.close["IAU"])))
  IN  (HasLegs /\ first # 0) =>
        \A i \in 1..Len(pipe.idx) :
          pipe.r_gold[i] = IF i < first THEN fut[i] ELSE etf[i]

\* C14 (as claimed): every row is assigned its stock return by exactly one
\* era slice and its gold return by exactly one of the futures series and the
\* ETF series.
C14_OneSourcePerDate ==
  HasLegs =>
    \A i \in 1..Len(pipe.idx) :
      /\ Cardinality(StockAssignments(pipe.idx[i])) = 1
      /\ Cardinality(GoldAssignments(pipe.close, i)) = 1

\* C15 (as claimed): every value of the unleveraged, leveraged, gold and
\* benchmark return series is finite.
C15_ReturnsFinite ==
  HasNavs =>
    LET r1x == UnleveragedReturns(pipe.close, pipe.idx)
        rsp == Sp500Returns(pipe.close)
    IN  \A i \in 1..Len(pipe.idx) :
          /\ IsFin(r1x[i])
          /\ IsFin(pipe.r_stock[i])
          /\ IsFin(pipe.r_gold[i])
          /\ IsFin(rsp[i])

\* C16: on every row the strategy return is the leveraged stock return when
\* the signal of the row is true and the gold return otherwise; on the first
\* ma_period rows, which are all rows of a series shorter than the window, the
\* signal is false and the gold return is used; the witness is a run on a
\* series shorter than the window that returns a result.
C16_StrategyFollowsSignal ==
  HasNavs =>
    \A i \in 1..Len(pipe.idx) :
      /\ pipe.r_strategy[i] = IF pipe.signal[i] THEN pipe.r_stock[i] ELSE pipe.r_gold[i]
      /\ i <= pipe.ma => (~pipe.signal[i] /\ pipe.r_strategy[i] = pipe.r_gold[i])
C16_Witness ==
  /\ pipe.st = "trimmed"
  /\ pipe.ma > Len(pipe.idx)
  /\ \E i \in 1..Len(pipe.idx) :
       pipe.r_stock[i] # pipe.r_gold[i] /\ pipe.r_strategy[i] = pipe.r_gold[i]

\* ----------------------------------------------- claims on the result
\* C17 (as claimed): recovery_days of a result is the recovery time of the
\* maximum drawdown of the un-trimmed strategy NAV.
C17_RecoveryOfFullSpan ==
  pipe.st = "trimmed" =>
    pipe.res.recovery_days =
      IF idxmin(calculate_drawdown_series(pipe.nav_full)) = 0
        THEN NoRecovery
        ELSE calculate_recovery_days(pipe.nav_full, pipe.idx)

\* the rows from the first row dated user_start or later to the last row
RowsFromStart == Len(pipe.idx) - pipe.actual + 1
\* C18 (as claimed): every series of a result starts at the first row of the
\* table dated user_start or later.
C18_SeriesStartTogether ==
  pipe.st = "trimmed" =>
    /\ pipe.idx[pipe.actual] >= pipe.user_start
    /\ \A j \in 1..(pipe.actual - 1) : pipe.idx[j] < pipe.user_start
    /\ Len(pipe.res.nav) = RowsFromStart
    /\ Len(pipe.res.stock_nav) = RowsFromStart
    /\ Len(pipe.res.stock_nav_1x) = RowsFromStart
    /\ Len(pipe.res.gold_nav) = RowsFromStart
    /\ Len(pipe.res.sp500_nav) = RowsFromStart
    /\ Len(pipe.res.stock_ma) = RowsFromStart
    /\ Len(pipe.res.signal) = RowsFromStart
    /\ Len(pipe.res.drawdown_series) = RowsFromStart
    /\ Len(pipe.res.rolling_sharpe) = RowsFromStart

\* C19 (as claimed): on every row of a result the ratio of the moving average
\* to the stock NAV is the ratio of the un-trimmed values, and the stock NAV
\* is above the moving average exactly when the un-trimmed NAV is above the
\* un-trimmed moving average.
C19_SameScale ==
  pipe.st = "trimmed" =>
    \A t \in 1..RowsFromStart :
      LET u == pipe.actual + t - 1
      IN  /\ FDiv(pipe.res.stock_ma[t], pipe.res.stock_nav[t])
               = FDiv(pipe.stock_ma[u], pipe.stock_nav[u])
          /\ FGt(pipe.res.stock_nav[t], pipe.res.stock_ma[t])
               <=> FGt(pipe.stock_nav[u], pipe.stock_ma[u])

\* --------------------------------------------- claims on the fetch window
\* C20: when the fetch window starts int(1.5 * ma_period) + 30 days before the
\* start without being moved to the earliest-data floor and the table has a
\* row for every weekday, at least ma_period rows lie on or before the first
\* row of the result, so the moving average is defined there.
C20_WindowFillsBeforeStart ==
  (fetch.st = "trimmed" /\ ~fetch.clamped) =>
    /\ fetch.extended_start = fetch.user_start - ExtDays(fetch.ma)
    /\ fetch.before >= fetch.ma
    /\ fetch.ma_defined
C20_Witness ==
  /\ fetch.st = "trimmed" /\ ~fetch.clamped
  /\ fetch.ma = MaxMaPeriod
  /\ fetch.actual > fetch.user_start
  /\ fetch.ma_defined
\* C21 (as stated): a requested start before the 1928-01-01 floor and before
\* the requested end is replaced by the floor and the run still succeeds, its
\* series starting at the first available date on or after the floor; it
\* does not fail because of the clamp, that is, when the fetched table has a
\* row on or after the requested start.
C21_ClampedRunSucceeds ==
  (/\ fetch.st \in {"empty", "trimmed"}
   /\ fetch.start < EARLIEST_RECOMMENDED_START
   /\ fetch.start < fetch.end
   /\ \E d \in fetch.rows : d >= fetch.start) =>
    /\ fetch.st = "trimmed"
    /\ fetch.user_start = EARLIEST_RECOMMENDED_START
    /\ fetch.actual >= EARLIEST_RECOMMENDED_START

\* C29 (as stated): whenever download_data is invoked, the fetch window's
\* start is strictly earlier than the requested end.
C29_WindowStartBeforeEnd ==
  fetch.st \in {"fetched", "unavailable", "empty", "trimmed"} =>
    fetch.extended_start < fetch.end

\* ------------------------------------------- claims on the run's failures
\* the three failures run_backtest raises itself: line 321, lines 105-119
\* (through download_data), line 371
TypedErrors == {"ValueError_range", "RuntimeError_download", "RuntimeError_no_data"}

\* C22 (as stated): every failure of the run is one of the typed errors, and
\* a table lacking a required ticker column fails the run with the
\* data-unavailable error.
C22_FailuresAreTyped ==
  /\ pipe.err # "" => pipe.err \in TypedErrors
  /\ (pipe.st \notin {"off", "raw", "close"} /\ ~(Tickers \subseteq DOMAIN pipe.close)) =>
       pipe.err = "RuntimeError_download"

\* C23: when the table has no date on or after the resolved start the run
\* fails with the empty-result error and nothing is trimmed, rebased or
\* summarized; a run that got past that point had such a date.
C23_EmptyResultBeforeTrim ==
  pipe.st \in {"empty", "failed", "trimmed"} =>
    IF \A i \in 1..Len(pipe.idx) : pipe.idx[i] < pipe.user_start
      THEN /\ pipe.st = "empty"
           /\ pipe.err = "RuntimeError_no_data"
           /\ pipe.res = <<>>
           /\ pipe.actual = 0
      ELSE /\ pipe.st # "empty"
           /\ pipe.err # "RuntimeError_no_data"
           /\ pipe.actual \in 1..Len(pipe.idx)
           /\ pipe.idx[pipe.actual] >= pipe.user_start
C23_Witness ==
  /\ pipe.st = "empty"
  /\ pipe.user_start > pipe.idx[Len(pipe.idx)]
  /\ Len(pipe.nav_full) = Len(pipe.idx)
  /\ pipe.res = <<>>

\* C30 (as stated): every run whose trimmed window has at least one date
\* returns a result; with exactly one date the CAGR computation does not
\* raise.
C30_NonEmptyWindowReturns ==
  (/\ pipe.st \in {"empty", "failed", "trimmed"}
   /\ \E i \in 1..Len(pipe.idx) : pipe.idx[i] >= pipe.user_start) =>
    /\ pipe.st = "trimmed"
    /\ pipe.err = ""

\* ------------------------------------- claims on the metric functions
AllEqual(s) == \A i, j \in 1..Len(s) : (~IsNaN(s[i]) /\ ~IsNaN(s[j])) => s[i] = s[j]

\* C24: Sharpe is NaN when the volatility is zero (the valid returns are all
\* equal) or undefined, Sortino is NaN when no return is negative, Calmar is
\* NaN when the max drawdown is not negative, a rolling-Sharpe window whose
\* values are all equal gives NaN, and none of the ratios is infinite for
\* finite arguments.
C24_RatiosUndefinedOnZeroDenominator ==
  /\ calc.st = "ratios" =>
       /\ ~IsInf(calc.out.sharpe)
       /\ ~IsInf(calc.out.sortino)
       /\ ~FGt(calc.out.volatility, Zero) => IsNaN(calc.out.sharpe)
       /\ AllEqual(calc.arg) => calc.out.volatility \in {Zero, NaN}
       /\ FGt(calc.out.volatility, Zero) => IsFin(calc.out.sharpe)
       /\ (\A i \in 1..Len(calc.arg) : ~FGt(Zero, calc.arg[i])) => IsNaN(calc.out.sortino)
  /\ calc.st = "drawdown" =>
       /\ ~FGt(Zero, calc.out.max_drawdown) => IsNaN(calc.out.calmar)
       /\ (FGt(Zero, calc.out.max_drawdown) /\ IsFin(calc.par)) => IsFin(calc.out.calmar)
  /\ calc.st = "rolled" =>
       \A i \in 1..Len(calc.arg) :
         /\ ~IsInf(calc.out[i])
         /\ (i >= calc.par /\ AllEqual(SubSeq(calc.arg, i - calc.par + 1, i))) =>
              IsNaN(calc.out[i])
C24_Witness ==
  /\ calc.st = "ratios"
  /\ calc.out.volatility = Zero
  /\ mean(calc.arg) # Zero
  /\ IsNaN(calc.out.sharpe)

\* C25: for a NAV series of positive values the max drawdown is at most 0
\* and is the least value of the drawdown series, whose first value is 0.
C25_MaxDrawdownIsLeastDrawdown ==
  (calc.st = "drawdown" /\ \A i \in 1..Len(calc.arg) : FGt(calc.arg[i], Zero)) =>
    /\ IsFin(calc.out.max_drawdown)
    /\ ~FGt(calc.out.max_drawdown, Zero)
    /\ \A i \in 1..Len(calc.arg) : FGe(calc.out.drawdown_series[i], calc.out.max_drawdown)
    /\ \E i \in 1..Len(calc.arg) : calc.out.drawdown_series[i] = calc.out.max_drawdown
    /\ calc.out.drawdown_series[1] = Zero
C25_Witness ==
  /\ calc.st = "drawdown"
  /\ \A i \in 1..Len(calc.arg) : FGt(calc.arg[i], Zero)
  /\ FGt(Zero, calc.out.max_drawdown)
  /\ FGt(calc.out.drawdown_series[Len(calc.arg)], calc.out.max_drawdown)

\* C28: the zones of a non-empty signal series start at the first date, each
\* ends on the date the next starts, neighbours have opposite is_stock, the
\* last ends at the last date, and the signal of every date is the is_stock
\* of the zone that starts at or most recently before it.
C28_ZonesCoverAlternating ==
  (calc.st = "zones" /\ Len(calc.arg) > 0) =>
    /\ Len(calc.out) >= 1
    /\ calc.out[1].start = calc.par[1]
    /\ \A j \in 1..(Len(calc.out) - 1) :
         /\ calc.out[j].end = calc.out[j + 1].start
         /\ calc.out[j].is_stock # calc.out[j + 1].is_stock
    /\ calc.out[Len(calc.out)].end = calc.par[Len(calc.par)]
    /\ \A i \in 1..Len(calc.arg) :
         \E j \in 1..Len(calc.out) :
           /\ calc.out[j].start <= calc.par[i]
           /\ \A l \in 1..Len(calc.out) :
                calc.out[l].start <= calc.par[i] => calc.out[l].start <= calc.out[j].start
           /\ calc.out[j].is_stock = calc.arg[i]
C28_Witness ==
  /\ calc.st = "zones"
  /\ Len(calc.out) >= 3
  /\ calc.out[2].end > calc.out[2].start + 1

\* ------------------------------------------- claims on the HTTP layer
NumericMetrics ==
  {"final_nav", "cagr", "volatility", "sharpe", "sortino", "max_drawdown", "win_rate",
   "calmar"}
ChartSeries ==
  {"nav_series", "stock_series", "stock_1x_series", "gold_series", "ma_series",
   "sp500_series", "drawdown_series", "rolling_sharpe_series"}
FiniteOrNull(v) == v = None \/ IsFin(v)

\* C26 (as stated): every number of the response, each point of each series
\* and each scalar of the metrics map, is finite or null.
C26_ResponseFiniteOrNull ==
  pipe.sent # <<>> =>
    /\ \A name \in ChartSeries :
         \A i \in 1..Len(pipe.sent[name]) : FiniteOrNull(pipe.sent[name][i].value)
    /\ \A name \in NumericMetrics : FiniteOrNull(pipe.sent.metrics[name])

\* ------------------------------------------- claims on the stage order
StageOrder ==
  <<"Resolve Range", "Fetch", "Build Legs", "Signal", "Compose", "Trim", "Summarize">>
IsPrefix(a, b) == Len(a) <= Len(b) /\ a = SubSeq(b, 1, Len(a))
Ended(r) == r.pc \in {"done", "failed", "raised"}
StagesInOrder ==
  \A p \in Procs :
    LET r == run[p]
    IN  /\ IsPrefix(r.stages, StageOrder)
        /\ r.out # <<>> => (r.pc = "done" /\ r.stages = StageOrder)
        /\ r.pc = "done" => r.out # <<>>
        /\ r.err # "" => (Ended(r) /\ r.out = <<>>)
StageSteps ==
  \A p \in Procs :
    LET r == run[p]
        r2 == run'[p]
    IN  /\ Ended(r) => r2 \in {r, Idle}
        /\ r2.stages # r.stages =>
             \/ r2.stages = <<>>
             \/ /\ Len(r.stages) < Len(StageOrder)
                /\ r2.stages = Append(r.stages, StageOrder[Len(r.stages) + 1])
        /\ (r2.att # r.att /\ r2.pc # "idle") =>
             (r.stages # <<>> /\ r.stages[Len(r.stages)] = "Fetch")

\* C27: the stages a run has executed are always an initial part of Resolve
\* Range, Fetch, Build Legs, Signal, Compose, Trim, Summarize, extended one
\* stage at a time; a result exists only after Summarize; after an exception
\* the run executes nothing more; fetch attempts are counted only while the
\* last stage entered is Fetch.
C27_StagesInFixedOrder == [](StagesInOrder) /\ [][StageSteps]_vars
C27_Witness ==
  \E p \in Procs :
    /\ run[p].pc = "done"
    /\ run[p].stages = StageOrder
    /\ run[p].att > 0
====
